---- MODULE Spec2Model ----
(***************************************************************************)
(* The sprint board of the MetaGPT-Pro frontend: the client-side mirror    *)
(* `tasks` of the Kanban board, the optimistic move of handleDragEnd with  *)
(* its rollback, and the sync effect that replaces the mirror by a fetched *)
(* collection.  frontend/src/app/project/[id]/board/page.tsx               *)
(* With it: the stream callbacks of the board, bug tracker and agents      *)
(* pages, and the toast provider of the root layout.                       *)
(***************************************************************************)
EXTENDS Integers, Sequences, FiniteSets, TLC

(***************************************************************************)
(* Bounds of the model.                                                    *)
(***************************************************************************)
\* accepted moves (dispatches issued) in one behaviour
MaxMoves == 2
\* fetched collections delivered to the page in one behaviour
MaxSeeds == 2
\* calls of addToast in one behaviour: one more than maxToasts
MaxToastCalls == 6
\* ToastProvider({ maxToasts = 5 }); the root layout passes none
maxToasts == 5
\* config.ui.toastDuration, the duration of a toast that names none; the
\* value is positive, only that matters here
toastDuration == 5000
\* keydown events in one behaviour
MaxKeydowns == 2
\* the Modal instances of a page
Modals == {"m1", "m2"}
\* the functions a parent passes as onClose
OnCloseFns == {"f", "g"}
\* the values of KeyboardEvent.key
Keys == {"Escape", "Enter"}
\* the props of a Modal that its effect depends on
ModalPropsSet ==
    [isOpen : BOOLEAN, closeOnEscape : BOOLEAN, onClose : OnCloseFns]
\* calls of handleRollback in one behaviour
MaxRollbackClicks == 3
\* timers a Tooltip starts in one behaviour
MaxTipTimers == 4
\* messages the user sends on the agents page in one behaviour
MaxSends == 2
\* conversation fetches that reach the agents page in one behaviour
MaxConversationFetches == 3
\* the thread lists the modelled backend returns
ThreadLists == {<<>>, <<"th_1">>, <<"th_1", "th_2">>}
\* calls of the conversation API in one behaviour
MaxCalls == 4
\* the conversation ids the modelled backend hands out
ConversationIds == {"conv_1", "conv_2"}
\* what the user may have typed when a form is submitted: nothing, blanks,
\* text with blanks around it, text
Inputs == {<<>>, <<" ">>, <<" ", "a", " ">>, <<"a">>}
\* responses the dashboard is given in one behaviour
MaxArrivals == 4
\* the counts of open and of critical bugs a response may carry
BugCounts == {1, 2}
\* messages of the bugs stream, and of the agent stream, in one behaviour
MaxEvents == 2
\* the message types the modelled bugs stream delivers: those the Bug
\* Tracking API documents and those the page names
BugMessageTypes == {"initial_state", "bug_created", "bug_fixed",
                    "bug_reported", "bug_updated"}
\* the same for the collaboration stream of the agents page
AgentMessageTypes == {"initial_state", "new_message", "approval_requested",
                      "approval_granted", "agent_message", "approval_request"}
\* messages of the board stream in one behaviour
MaxMessages == 1
\* the message types the modelled board stream delivers: the three the page
\* names, the documented initial_state, and one the page has never heard of
MessageTypes == {"task_moved", "task_updated", "task_created",
                 "initial_state", "task_deleted"}
\* the task ids that occur in fetched collections and in drag events
TaskOrder == <<"T1", "T2">>
\* the columns the modelled backend files the first task under; it may also
\* have deleted it.  Every other task stays in "todo".
FetchColumns == {"todo", "in_progress", "blocked"}
\* the drop targets (over.id) of the modelled drag events, besides no target
DropTargets == {"todo", "in_progress", "review", "blocked", "T1"}

(***************************************************************************)
(* Types and constants of the page.                                        *)
(***************************************************************************)
\* type ColumnId
ColumnIds == {"todo", "in_progress", "review", "testing", "done", "blocked"}

\* the key order of a BoardData object (Object.entries order)
ColumnOrder == <<"todo", "in_progress", "review", "testing", "done", "blocked">>

\* const columns: the columns the board renders and accepts drops on
columns == <<"todo", "in_progress", "review", "testing", "done">>

\* a status the modelled backend may use and ColumnId does not list
UnknownKey == "archived"

\* const fallbackTasks
fallbackTasks == [c \in ColumnIds |-> <<>>]

\* null / undefined
Null == "null"

\* the result of Array.find that found nothing (activeTask = null)
NoTask == [id |-> Null, status |-> Null, priority |-> Null]

\* a BoardTask: its id, its partition key and one opaque field
BoardTask(id, status, priority) ==
    [id |-> id, status |-> status, priority |-> priority]

Range(s) == {s[i] : i \in 1..Len(s)}

TaskIds == Range(TaskOrder)

(***************************************************************************)
(* Array helpers.                                                          *)
(***************************************************************************)
\* col.filter((t) => t.id !== taskId)
RECURSIVE FilterOut(_, _)
FilterOut(col, taskId) ==
    IF col = <<>> THEN <<>>
    ELSE IF Head(col).id = taskId THEN FilterOut(Tail(col), taskId)
    ELSE <<Head(col)>> \o FilterOut(Tail(col), taskId)

\* col.find((t) => t.id === taskId)
FindTask(col, taskId) ==
    LET hits == {i \in 1..Len(col) : col[i].id = taskId}
    IN  IF hits = {} THEN NoTask
        ELSE col[CHOOSE i \in hits : \A j \in hits : i <= j]

\* Object.entries(t): the keys of the mirror in their order, a key outside
\* the enumeration included if the mirror has one
KeysOf(t) == SelectSeq(ColumnOrder \o <<UnknownKey>>, LAMBDA c : c \in DOMAIN t)

\* findColumnForTask: the first column, in key order, that holds the id
findColumnForTask(t, taskId) ==
    LET keys == KeysOf(t)
        hits == {k \in 1..Len(keys) : FindTask(t[keys[k]], taskId) # NoTask}
    IN  IF hits = {} THEN Null
        ELSE keys[CHOOSE k \in hits : \A j \in hits : k <= j]

(***************************************************************************)
(* The fetched collections: every task is filed under one column, with its *)
(* status equal to that column, or is absent; a column lists its tasks in  *)
(* the order of TaskOrder.                                                 *)
(***************************************************************************)
Placements ==
    {p \in [TaskIds -> FetchColumns \cup {Null}] :
        \A i \in TaskIds \ {TaskOrder[1]} : p[i] = "todo"}

\* the ids of S in the order of TaskOrder
SeqOfSet(S) ==
    LET keep(i) == i \in S
    IN  SelectSeq(TaskOrder, keep)

\* the priority the modelled backend gives a task
TaskPriority(id) == IF id = TaskOrder[1] THEN "p0" ELSE "p1"

FetchedBoard(place) ==
    [c \in ColumnIds |->
        LET ids == SeqOfSet({i \in TaskIds : place[i] = c})
        IN  [k \in 1..Len(ids) |-> BoardTask(ids[k], c, TaskPriority(ids[k]))]]

FetchedBoards == {FetchedBoard(place) : place \in Placements}

\* a collection off the contract: the first task is filed under a status
\* outside the enumeration, the other tasks are in "todo"
MalformedBoard ==
    [c \in ColumnIds \cup {UnknownKey} |->
        IF c = UnknownKey
        THEN <<BoardTask(TaskOrder[1], c, TaskPriority(TaskOrder[1]))>>
        ELSE IF c = "todo"
        THEN FetchedBoard([i \in TaskIds |->
                              IF i = TaskOrder[1] THEN Null ELSE "todo"])[c]
        ELSE <<>>]

\* what the page may be given when the backend does not keep the contract
WireBoards == FetchedBoards \cup {MalformedBoard}

(***************************************************************************)
(* The state.                                                              *)
(***************************************************************************)
VARIABLES
    tasks,          \* useState<BoardData>: the mirror
    boardData,      \* useBoard().data: <<>> while undefined, else <<the
                    \* last fetched collection>>
    moves,          \* the calls of handleDragEnd that reached the dispatch:
                    \* what each one captured (task, sourceColumn, overColumn)
                    \* and, for the record, how many collections had been
                    \* fetched and which dispatches were pending then
    resolutions,    \* the dispatches that resolved, in order: <<n, ok>>
    dispatched,     \* the calls of moveTaskMutation.mutate, in order
    notifications,  \* the calls of success() and showError(), in order
    seeds,          \* how many fetched collections the page was given
    preMove,        \* the mirror before the last accepted move, while no
                    \* other move or seed has come in between
    lastDrop,       \* the drop event handleDragEnd was given in the last
                    \* step, if that step was a drop
    mounted,        \* the board page is mounted
    refetches,      \* the calls of useBoard().refetch by the stream callback
    lastMessage,    \* the last message of the board stream, its number,
                    \* and the pending dispatches and the count of fetched
                    \* collections when it came
    toasts,         \* ToastProvider, useState<Toast[]>: the toast list
    timers,         \* the ids whose setTimeout(removeToast) is pending
    toastLog,       \* every toast addToast was given, by number
    bugEvents,      \* bug tracker page: the stream messages, in order
    bugRefetches,   \* bug tracker page: the calls of useBugs().refetch
    agentEvents,    \* agents page: the stream messages, in order
    agentRefetches, \* agents page: the calls of useConversations().refetch
    agentNotices,   \* agents page: the calls of info()
    metricsData,    \* dashboard, useProjectMetrics().data: <<>> or <<data>>
    bugMetrics,     \* dashboard, useBugMetrics().data: <<>> or <<data>>
    project,        \* dashboard, useState(null): <<>> or <<the project>>
    arrivals,       \* dashboard: the responses that have arrived
    conversationId, \* new-project page, useState<string | null>(null)
    isLoading,      \* new-project page, useState(false)
    isApproving,    \* new-project page, useState(false)
    canApprove,     \* new-project page, useState(false)
    chat,           \* new-project page, messages: the role of each message
    request,        \* new-project page: <<>> or <<the startConversation or
                    \* sendMessage call handleSubmit awaits>>
    approving,      \* new-project page: handleApprove awaits its call
    calls,          \* new-project page: the calls of the conversation API
    issued,         \* the conversation ids startConversation has returned
    lastSubmit,     \* the submit handleSubmit was given in the last step
    navigated,      \* new-project page: router.push has been called
    conversationsData, \* agents page, useAgentConversations().data: <<>> or
                    \* <<the ids of the fetched threads, in order>>
    threads,        \* agents page, useState<Thread[]>([]): id and messages
    selectedThreadId, \* agents page, useState<string>('')
    isSending,      \* agents page, useState(false)
    sending,        \* agents page: <<>> or <<the message handleSubmit sent
                    \* and awaits the result of>>
    delivered,      \* agents page: the messages whose send succeeded
    sends,          \* agents page: the messages handleSubmit has appended
    conversationFetches, \* agents page: the fetches that have arrived
    isVisible,      \* Tooltip, useState(false)
    timeoutRef,     \* Tooltip, useRef(null): 0 or the id of a timer
    tipTimers,      \* Tooltip: the ids of the pending setTimeout calls
    tipCount,       \* Tooltip: the timers started so far
    tipDisabled,    \* Tooltip: the prop disabled
    tipHidden,      \* Tooltip: hideTooltip has run and showTooltip has not
                    \* been called since
    isRollbackOpen, \* versions page, useState(false)
    rollbackReason, \* versions page, useState(''): its characters
    rollbackCalls,  \* versions page: the calls of rollbackMutation.mutate
    rollbackResults, \* versions page: the results of the settled calls
    versionNotices, \* versions page: the kinds of the toasts requested
    versionRefetches, \* versions page: the calls of refetch()
    rollbackClicks, \* versions page: the calls of handleRollback
    modalMounted,   \* Modal: the instances that are mounted
    modalProps,     \* Modal: isOpen, closeOnEscape and onClose of each
    keydownListeners, \* the keydown listeners of document, in the order
                    \* they were added
    bodyOverflow,   \* document.body.style.overflow
    onCloseCalls,   \* Modal: the calls of onClose made by handleEscape
    keydowns        \* the keydown events dispatched to document

boardVars == <<tasks, boardData, moves, resolutions,
               dispatched, notifications, seeds, preMove, lastDrop>>
pageVars == <<mounted, refetches, lastMessage>>
toastVars == <<toasts, timers, toastLog>>
streamVars == <<bugEvents, bugRefetches, agentEvents, agentRefetches,
                agentNotices>>

dashVars == <<metricsData, bugMetrics, project, arrivals>>

newVars == <<conversationId, isLoading, isApproving, canApprove, chat,
             request, approving, calls, issued, lastSubmit, navigated>>

agentVars == <<conversationsData, threads, selectedThreadId, isSending,
               sending, delivered, sends, conversationFetches>>

tipVars == <<isVisible, timeoutRef, tipTimers, tipCount, tipDisabled,
             tipHidden>>

versionVars == <<isRollbackOpen, rollbackReason, rollbackCalls,
                 rollbackResults, versionNotices, versionRefetches,
                 rollbackClicks>>

modalVars == <<modalMounted, modalProps, keydownListeners, bodyOverflow,
               onCloseCalls, keydowns>>

\* the state of the other pages and components
uiVars == <<dashVars, newVars, agentVars, tipVars, versionVars, modalVars>>

vars == <<boardVars, pageVars, toastVars, streamVars, uiVars>>

\* what the actions of one page leave alone
NotDash == <<boardVars, pageVars, toastVars, streamVars, newVars, agentVars,
             tipVars, versionVars, modalVars>>
NotNew == <<boardVars, pageVars, toastVars, streamVars, dashVars, agentVars,
            tipVars, versionVars, modalVars>>
NotAgents == <<boardVars, pageVars, toastVars, streamVars, dashVars, newVars,
               tipVars, versionVars, modalVars>>
NotTip == <<boardVars, pageVars, toastVars, streamVars, dashVars, newVars,
            agentVars, versionVars, modalVars>>
NotVersions == <<boardVars, pageVars, toastVars, streamVars, dashVars,
                 newVars, agentVars, tipVars, modalVars>>
NotModal == <<boardVars, pageVars, toastVars, streamVars, dashVars,
              newVars, agentVars, tipVars, versionVars>>

NoPreMove == [n |-> 0, board |-> fallbackTasks]
NoDrop == [id |-> Null, over |-> Null, accepted |-> FALSE]
NoSubmit == [input |-> <<>>, accepted |-> FALSE, n |-> 0]
NoMessage == [type |-> Null, n |-> 0, pending |-> {}, seeds |-> 0]

Init ==
    /\ tasks = fallbackTasks
    /\ boardData = <<>>
    /\ moves = <<>>
    /\ resolutions = <<>>
    /\ dispatched = <<>>
    /\ notifications = <<>>
    /\ seeds = 0
    /\ preMove = NoPreMove
    /\ lastDrop = NoDrop
    /\ mounted = TRUE
    /\ refetches = 0
    /\ lastMessage = NoMessage
    /\ toasts = <<>>
    /\ timers = {}
    /\ toastLog = <<>>
    /\ bugEvents = <<>>
    /\ bugRefetches = 0
    /\ agentEvents = <<>>
    /\ agentRefetches = 0
    /\ agentNotices = 0
    /\ metricsData = <<>>
    /\ bugMetrics = <<>>
    /\ project = <<>>
    /\ arrivals = 0
    /\ conversationId = Null
    /\ isLoading = FALSE
    /\ isApproving = FALSE
    /\ canApprove = FALSE
    /\ chat = <<>>
    /\ request = <<>>
    /\ approving = FALSE
    /\ calls = <<>>
    /\ issued = {}
    /\ lastSubmit = NoSubmit
    /\ navigated = FALSE
    /\ conversationsData = <<>>
    /\ threads = <<>>
    /\ selectedThreadId = ""
    /\ isSending = FALSE
    /\ sending = <<>>
    /\ delivered = {}
    /\ sends = 0
    /\ conversationFetches = 0
    /\ isVisible = FALSE
    /\ timeoutRef = 0
    /\ tipTimers = {}
    /\ tipCount = 0
    /\ tipDisabled = FALSE
    /\ tipHidden = FALSE
    /\ isRollbackOpen = FALSE
    /\ rollbackReason = <<>>
    /\ rollbackCalls = <<>>
    /\ rollbackResults = <<>>
    /\ versionNotices = <<>>
    /\ versionRefetches = 0
    /\ rollbackClicks = 0
    /\ modalMounted = [m \in Modals |-> FALSE]
    /\ modalProps = [m \in Modals |->
                       [isOpen |-> FALSE, closeOnEscape |-> TRUE,
                        onClose |-> "f"]]
    /\ keydownListeners = <<>>
    /\ bodyOverflow = ""
    /\ onCloseCalls = <<>>
    /\ keydowns = 0

Resolved(n) == \E k \in 1..Len(resolutions) : resolutions[k].n = n
Pending(n) == n \in 1..Len(moves) /\ ~Resolved(n)
Outcome(n) ==
    LET k == CHOOSE j \in 1..Len(resolutions) : resolutions[j].n = n
    IN  resolutions[k].ok

(***************************************************************************)
(* The sync effect: a fetched collection replaces the mirror.              *)
(***************************************************************************)
\* mutant: the effect merges the fetched collection into the mirror
SyncEffect_Merge(prev, data) ==
    IF data # <<>> THEN [c \in ColumnIds |-> prev[c] \o data[1][c]] ELSE prev

\* if (boardData) setTasks(boardData)
SyncEffect(prev, data) == IF data # <<>> THEN data[1] ELSE prev

FetchBoard(data) ==
    /\ mounted
    /\ seeds < MaxSeeds
    /\ boardData' = <<data>>
    /\ tasks' = SyncEffect(tasks, <<data>>)
    /\ seeds' = seeds + 1
    /\ preMove' = NoPreMove
    /\ lastDrop' = NoDrop
    /\ UNCHANGED <<moves, resolutions, dispatched, notifications>>
    /\ UNCHANGED <<pageVars, toastVars, streamVars, uiVars>>

(***************************************************************************)
(* handleDragEnd                                                           *)
(***************************************************************************)
\* mutant: the check sourceColumn === overColumn is missing
DropAccepted_NoSameCheck(t, activeId, overId) ==
    LET sourceColumn == findColumnForTask(t, activeId)
    IN  /\ overId # Null
        /\ sourceColumn # Null
        /\ overId \in Range(columns)
        /\ FindTask(t[sourceColumn], activeId) # NoTask

\* mutant: every key of the mirror is taken for a column of the board
DropAccepted_AnyColumnId(t, activeId, overId) ==
    LET sourceColumn == findColumnForTask(t, activeId)
    IN  /\ overId # Null
        /\ sourceColumn # Null
        /\ overId \in ColumnIds
        /\ sourceColumn # overId
        /\ FindTask(t[sourceColumn], activeId) # NoTask

\* the early returns of handleDragEnd: TRUE when the drop goes on to the
\* optimistic update
DropAccepted(t, activeId, overId) ==
    LET sourceColumn == findColumnForTask(t, activeId)
    IN  /\ overId # Null
        /\ sourceColumn # Null
        /\ overId \in Range(columns)
        /\ sourceColumn # overId
        /\ FindTask(t[sourceColumn], activeId) # NoTask

\* mutant: the optimistic update does not take the task out of its column
ApplyMove_KeepsSource(prev, task, sourceColumn, overColumn, activeId) ==
    [prev EXCEPT ![overColumn] = Append(prev[overColumn],
                                        [task EXCEPT !.status = overColumn])]

\* mutant: the optimistic update puts the task at the head of the column
ApplyMove_Prepends(prev, task, sourceColumn, overColumn, activeId) ==
    LET removed == [prev EXCEPT
                       ![sourceColumn] = FilterOut(prev[sourceColumn], activeId)]
    IN  [removed EXCEPT
            ![overColumn] = <<[task EXCEPT !.status = overColumn]>>
                               \o prev[overColumn]]

\* the optimistic update
ApplyMove(prev, task, sourceColumn, overColumn, activeId) ==
    LET removed == [prev EXCEPT
                       ![sourceColumn] = FilterOut(prev[sourceColumn], activeId)]
    IN  [removed EXCEPT
            ![overColumn] = Append(prev[overColumn],
                                   [task EXCEPT !.status = overColumn])]

\* mutant: the rollback filters the destination with the test inverted
RollbackMove_WrongFilter(prev, task, sourceColumn, overColumn, activeId) ==
    LET same(t) == t.id = activeId
        removed == [prev EXCEPT
                       ![overColumn] = SelectSeq(prev[overColumn], same)]
    IN  [removed EXCEPT ![sourceColumn] = Append(prev[sourceColumn], task)]

\* the rollback
RollbackMove(prev, task, sourceColumn, overColumn, activeId) ==
    LET removed == [prev EXCEPT
                       ![overColumn] = FilterOut(prev[overColumn], activeId)]
    IN  [removed EXCEPT ![sourceColumn] = Append(prev[sourceColumn], task)]

\* mutant: the dispatch is issued before the early returns
DragEndRejected_Dispatches(activeId, overId) ==
    /\ mounted
    /\ ~DropAccepted(tasks, activeId, overId)
    /\ Len(dispatched) < MaxMoves
    /\ dispatched' = Append(dispatched,
                            [taskId |-> activeId, newStatus |-> overId])
    /\ lastDrop' = [id |-> activeId, over |-> overId, accepted |-> FALSE]
    /\ UNCHANGED <<tasks, boardData, moves, resolutions, notifications,
                   seeds, preMove>>
    /\ UNCHANGED <<pageVars, toastVars, streamVars, uiVars>>

\* a drop that returns early (setActiveTask(null) is all it does)
DragEndRejected(activeId, overId) ==
    /\ mounted
    /\ ~DropAccepted(tasks, activeId, overId)
    /\ lastDrop' = [id |-> activeId, over |-> overId, accepted |-> FALSE]
    /\ UNCHANGED <<tasks, boardData, moves, resolutions, dispatched,
                   notifications, seeds, preMove>>
    /\ UNCHANGED <<pageVars, toastVars, streamVars, uiVars>>

\* a drop that is applied and dispatched, up to the await
DragEndAccepted(activeId, overId) ==
    /\ mounted
    /\ DropAccepted(tasks, activeId, overId)
    /\ Len(moves) < MaxMoves
    /\ LET sourceColumn == findColumnForTask(tasks, activeId)
           task == FindTask(tasks[sourceColumn], activeId)
       IN  /\ tasks' = ApplyMove(tasks, task, sourceColumn, overId, activeId)
           /\ moves' = Append(moves, [id |-> activeId, task |-> task,
                                      sourceColumn |-> sourceColumn,
                                      overColumn |-> overId,
                                      seeds |-> seeds,
                                      inflight |-> {n \in 1..Len(moves) :
                                                       Pending(n)}])
    /\ notifications' = Append(notifications,
                               [type |-> "success", move |-> Len(moves) + 1])
    /\ dispatched' = Append(dispatched,
                            [taskId |-> activeId, newStatus |-> overId])
    /\ preMove' = [n |-> Len(moves) + 1, board |-> tasks]
    /\ lastDrop' = [id |-> activeId, over |-> overId, accepted |-> TRUE]
    /\ UNCHANGED <<boardData, resolutions, seeds>>
    /\ UNCHANGED <<pageVars, toastVars, streamVars, uiVars>>

\* mutant: the test of the result is inverted
Reconcile_Inverted(prev, m, result) ==
    IF result
    THEN RollbackMove(prev, m.task, m.sourceColumn, m.overColumn, m.id)
    ELSE prev

\* what handleDragEnd does with the mirror once the dispatch has resolved
Reconcile(prev, m, result) ==
    IF ~result
    THEN RollbackMove(prev, m.task, m.sourceColumn, m.overColumn, m.id)
    ELSE prev

\* mutant: the failure notification does not depend on the result
ReconcileNotice_Always(log, n, result) ==
    Append(log, [type |-> "error", move |-> n])

\* what handleDragEnd notifies once the dispatch has resolved
ReconcileNotice(log, n, result) ==
    IF ~result THEN Append(log, [type |-> "error", move |-> n]) ELSE log

\* mutant: a failed dispatch is issued once more
DispatchResolves_Retries(n, ok) ==
    /\ Pending(n)
    /\ tasks' = IF mounted THEN Reconcile(tasks, moves[n], ok) ELSE tasks
    /\ notifications' = ReconcileNotice(notifications, n, ok)
    /\ resolutions' = Append(resolutions, [n |-> n, ok |-> ok])
    /\ dispatched' = IF ~ok THEN Append(dispatched, dispatched[n])
                            ELSE dispatched
    /\ lastDrop' = NoDrop
    /\ UNCHANGED <<boardData, moves, seeds, preMove>>
    /\ UNCHANGED <<pageVars, toastVars, streamVars, uiVars>>

\* the dispatch of move n resolves: result is truthy (ok) or null.  The
\* continuation of handleDragEnd runs whether or not the page is still
\* mounted; React drops the setTasks of an unmounted component, while
\* showError belongs to the ToastProvider of the root layout.
DispatchResolves(n, ok) ==
    /\ Pending(n)
    /\ tasks' = IF mounted THEN Reconcile(tasks, moves[n], ok) ELSE tasks
    /\ notifications' = ReconcileNotice(notifications, n, ok)
    /\ resolutions' = Append(resolutions, [n |-> n, ok |-> ok])
    /\ lastDrop' = NoDrop
    /\ UNCHANGED <<boardData, moves, dispatched, seeds, preMove>>
    /\ UNCHANGED <<pageVars, toastVars, streamVars, uiVars>>

DispatchFails == \E n \in 1..MaxMoves : DispatchResolves(n, FALSE)
DispatchSucceeds == \E n \in 1..MaxMoves : DispatchResolves(n, TRUE)

OverIds == DropTargets \cup {Null}

Next ==
    \/ \E data \in FetchedBoards : FetchBoard(data)
    \/ \E id \in TaskIds, over \in OverIds : DragEndRejected(id, over)
    \/ \E id \in TaskIds, over \in OverIds : DragEndAccepted(id, over)
    \/ DispatchFails
    \/ DispatchSucceeds

Spec == Init /\ [][Next]_vars

\* the board with a backend that may send a collection off the contract
NextWire ==
    \/ \E data \in WireBoards : FetchBoard(data)
    \/ \E id \in TaskIds, over \in OverIds : DragEndAccepted(id, over)
    \/ DispatchFails
    \/ DispatchSucceeds

SpecWire == Init /\ [][NextWire]_vars

(***************************************************************************)
(* The board stream and the life of the page.                              *)
(***************************************************************************)
\* mutant: the callback knows task_moved only
StreamRefetches_MovedOnly(type) == type = "task_moved"

\* mutant: the callback refetches on every message
StreamRefetches_Always(type) == TRUE

\* the message types on which the callback of useBoardStream calls refetch()
StreamRefetches(type) ==
    \/ type = "task_moved" \/ type = "task_updated"
    \/ type = "task_created"

\* the callback of useBoardStream
BoardStreamMessage(type) ==
    /\ mounted
    /\ lastMessage.n < MaxMessages
    /\ refetches' = IF StreamRefetches(type) THEN refetches + 1 ELSE refetches
    /\ notifications' = IF type = "task_created"
                        THEN Append(notifications,
                                    [type |-> "success", move |-> 0])
                        ELSE notifications
    /\ lastMessage' = [type |-> type, n |-> lastMessage.n + 1,
                       pending |-> {n \in 1..Len(moves) : Pending(n)},
                       seeds |-> seeds]
    /\ lastDrop' = NoDrop
    /\ UNCHANGED <<tasks, boardData, moves, resolutions, dispatched, seeds,
                   preMove, mounted>>
    /\ UNCHANGED <<toastVars, streamVars, uiVars>>

\* the user leaves the board: the page is unmounted, the root layout stays
Unmount ==
    /\ mounted
    /\ mounted' = FALSE
    /\ lastDrop' = NoDrop
    /\ UNCHANGED <<tasks, boardData, moves, resolutions, dispatched,
                   notifications, seeds, preMove, refetches, lastMessage>>
    /\ UNCHANGED <<toastVars, streamVars, uiVars>>

\* A drop that returns early changes nothing of the page; the page
\* specification follows the drops that go on to the dispatch.
NextPage ==
    \/ \E data \in FetchedBoards : FetchBoard(data)
    \/ \E id \in TaskIds, over \in OverIds : DragEndAccepted(id, over)
    \/ DispatchFails
    \/ DispatchSucceeds
    \/ \E type \in MessageTypes : BoardStreamMessage(type)
    \/ Unmount

SpecPage == Init /\ [][NextPage]_vars

(***************************************************************************)
(* The stream callbacks of the bug tracker page and of the agents page.    *)
(***************************************************************************)
\* the message types on which the callback of useBugsStream calls refetch()
BugStreamRefetches(type) == type = "bug_reported" \/ type = "bug_updated"

\* the callback of useBugsStream
BugsStreamMessage(type) ==
    /\ Len(bugEvents) < MaxEvents
    /\ bugEvents' = Append(bugEvents, type)
    /\ bugRefetches' = IF BugStreamRefetches(type) THEN bugRefetches + 1
                                                   ELSE bugRefetches
    /\ UNCHANGED <<agentEvents, agentRefetches, agentNotices>>
    /\ UNCHANGED <<boardVars, pageVars, toastVars, uiVars>>

\* the message types on which the callback of useAgentStream calls refetch()
AgentStreamRefetches(type) ==
    type = "agent_message" \/ type = "approval_request"

\* the callback of useAgentStream
AgentStreamMessage(type) ==
    /\ Len(agentEvents) < MaxEvents
    /\ agentEvents' = Append(agentEvents, type)
    /\ agentRefetches' = IF AgentStreamRefetches(type) THEN agentRefetches + 1
                                                       ELSE agentRefetches
    /\ agentNotices' = IF AgentStreamRefetches(type) /\ type = "agent_message"
                       THEN agentNotices + 1 ELSE agentNotices
    /\ UNCHANGED <<bugEvents, bugRefetches>>
    /\ UNCHANGED <<boardVars, pageVars, toastVars, uiVars>>

NextStreams ==
    \/ \E type \in BugMessageTypes : BugsStreamMessage(type)
    \/ \E type \in AgentMessageTypes : AgentStreamMessage(type)

SpecStreams == Init /\ [][NextStreams]_vars

(***************************************************************************)
(* The project dashboard: app/project/[id]/page.tsx                        *)
(***************************************************************************)
\* what a project-metrics response says of bugs
MetricsResponses == [open_bugs : BugCounts, critical_bugs : BugCounts]

\* what a bug-metrics response says
BugMetricsResponses == [open : BugCounts, critical : BugCounts]

\* the effect on [metricsData, id]: the metrics of the project are set from
\* the project metrics, the bug counts among them
MetricsEffect(prev, data) ==
    IF data # <<>>
    THEN <<[openBugs |-> data[1].open_bugs,
            criticalBugs |-> data[1].critical_bugs]>>
    ELSE prev

\* the effect on [bugMetrics]: `seen` is the project of the render the
\* effect belongs to, prev the state the updater is given
BugMetricsEffect(prev, data, seen) ==
    IF data # <<>> /\ seen # <<>>
    THEN <<[prev[1] EXCEPT !.openBugs = data[1].open,
                           !.criticalBugs = data[1].critical]>>
    ELSE prev

\* a project-metrics response arrives (first load or re-fetch)
MetricsArrive(m) ==
    /\ arrivals < MaxArrivals
    /\ metricsData' = <<m>>
    /\ project' = MetricsEffect(project, <<m>>)
    /\ arrivals' = arrivals + 1
    /\ UNCHANGED bugMetrics
    /\ UNCHANGED NotDash

\* a bug-metrics response arrives
BugMetricsArrive(b) ==
    /\ arrivals < MaxArrivals
    /\ bugMetrics' = <<b>>
    /\ project' = BugMetricsEffect(project, <<b>>, project)
    /\ arrivals' = arrivals + 1
    /\ UNCHANGED metricsData
    /\ UNCHANGED NotDash

NextDash ==
    \/ \E m \in MetricsResponses : MetricsArrive(m)
    \/ \E b \in BugMetricsResponses : BugMetricsArrive(b)

SpecDash == Init /\ [][NextDash]_vars

(***************************************************************************)
(* The new-project page: app/new/page.tsx                                  *)
(***************************************************************************)
\* String.prototype.trim on a string given as the sequence of its characters
RECURSIVE TrimStart(_)
TrimStart(str) ==
    IF str # <<>> /\ Head(str) = " " THEN TrimStart(Tail(str)) ELSE str

RECURSIVE TrimEnd(_)
TrimEnd(str) ==
    IF str # <<>> /\ str[Len(str)] = " "
    THEN TrimEnd(SubSeq(str, 1, Len(str) - 1)) ELSE str

Trim(str) == TrimEnd(TrimStart(str))

\* mutant: the guard of handleSubmit does not look at isLoading
SubmitAccepts_IgnoresLoading(input, loading) == Trim(input) # <<>>

\* if (!inputValue.trim() || isLoading) return;
SubmitAccepts(input, loading) == Trim(input) # <<>> /\ ~loading

\* a submit that returns at once
SubmitRejected(input) ==
    /\ ~navigated
    /\ ~SubmitAccepts(input, isLoading)
    /\ lastSubmit' = [input |-> input, accepted |-> FALSE,
                      n |-> lastSubmit.n]
    /\ UNCHANGED <<conversationId, isLoading, isApproving, canApprove, chat,
                   request, approving, calls, issued, navigated>>
    /\ UNCHANGED NotNew

\* a submit up to its await: startConversation without a conversation id,
\* sendMessage with one
SubmitAccepted(input) ==
    /\ ~navigated
    /\ SubmitAccepts(input, isLoading)
    /\ Len(calls) < MaxCalls
    /\ LET call == [fn |-> IF conversationId = Null THEN "start" ELSE "send",
                    conv |-> conversationId,
                    content |-> Trim(input)]
       IN  /\ request' = <<call>>
           /\ calls' = Append(calls, call)
    /\ chat' = Append(chat, "user")
    /\ isLoading' = TRUE
    /\ lastSubmit' = [input |-> input, accepted |-> TRUE,
                      n |-> lastSubmit.n + 1]
    /\ UNCHANGED <<conversationId, isApproving, canApprove, approving,
                   issued, navigated>>
    /\ UNCHANGED NotNew

\* startConversation resolves with a conversation id
StartSucceeds(id) ==
    /\ request # <<>> /\ request[1].fn = "start"
    /\ conversationId' = id
    /\ issued' = issued \cup {id}
    /\ chat' = Append(chat, "assistant")
    /\ isLoading' = FALSE
    /\ request' = <<>>
    /\ UNCHANGED <<isApproving, canApprove, approving, calls, lastSubmit,
                   navigated>>
    /\ UNCHANGED NotNew

\* sendMessage resolves
SendSucceeds(requires_approval) ==
    /\ request # <<>> /\ request[1].fn = "send"
    /\ chat' = Append(chat, "assistant")
    /\ canApprove' = requires_approval
    /\ isLoading' = FALSE
    /\ request' = <<>>
    /\ UNCHANGED <<conversationId, isApproving, approving, calls, issued,
                   lastSubmit, navigated>>
    /\ UNCHANGED NotNew

\* either call rejects: the catch appends an error message, finally resets
RequestFails ==
    /\ request # <<>>
    /\ chat' = Append(chat, "error")
    /\ isLoading' = FALSE
    /\ request' = <<>>
    /\ UNCHANGED <<conversationId, isApproving, canApprove, approving,
                   calls, issued, lastSubmit, navigated>>
    /\ UNCHANGED NotNew

\* the approve button is rendered if canApprove and is disabled while
\* loading={isApproving}
ApproveEnabled == canApprove /\ ~isApproving

\* handleApprove up to its await
Approve ==
    /\ ~navigated
    /\ ApproveEnabled
    /\ conversationId # Null
    /\ Len(calls) < MaxCalls
    /\ isApproving' = TRUE
    /\ approving' = TRUE
    /\ calls' = Append(calls, [fn |-> "approve", conv |-> conversationId,
                               content |-> <<>>])
    /\ UNCHANGED <<conversationId, isLoading, canApprove, chat, request,
                   issued, lastSubmit, navigated>>
    /\ UNCHANGED NotNew

\* approveRequirements resolves: router.push
ApproveSucceeds ==
    /\ approving
    /\ approving' = FALSE
    /\ navigated' = TRUE
    /\ UNCHANGED <<conversationId, isLoading, isApproving, canApprove, chat,
                   request, calls, issued, lastSubmit>>
    /\ UNCHANGED NotNew

\* approveRequirements rejects: the catch logs, there is no finally
ApproveFails ==
    /\ approving
    /\ approving' = FALSE
    /\ UNCHANGED <<conversationId, isLoading, isApproving, canApprove, chat,
                   request, calls, issued, lastSubmit, navigated>>
    /\ UNCHANGED NotNew

NextNew ==
    \/ \E input \in Inputs : SubmitRejected(input)
    \/ \E input \in Inputs : SubmitAccepted(input)
    \/ \E id \in ConversationIds : StartSucceeds(id)
    \/ \E ra \in BOOLEAN : SendSucceeds(ra)
    \/ RequestFails
    \/ Approve
    \/ ApproveSucceeds
    \/ ApproveFails

SpecNew == Init /\ [][NextNew]_vars

(***************************************************************************)
(* The agents page: app/project/[id]/agents/page.tsx                       *)
(***************************************************************************)
\* the sync effect: every fetched thread, with messages: []
SyncThreads(prev, data) ==
    IF data # <<>>
    THEN [k \in 1..Len(data[1]) |-> [id |-> data[1][k], messages |-> <<>>]]
    ELSE prev

\* the sync effect: the first thread is selected if none is
SyncSelection(selected, data) ==
    IF data # <<>> /\ Len(data[1]) > 0 /\ selected = ""
    THEN data[1][1] ELSE selected

\* threads.find((t) => t.id === selectedThreadId) found a thread
HasSelectedThread ==
    \E k \in 1..Len(threads) : threads[k].id = selectedThreadId

\* fetched conversations arrive; the effect on [conversationsData,
\* selectedThreadId] runs, and once more if it has set the selection
ConversationsArrive(list) ==
    /\ conversationFetches < MaxConversationFetches
    /\ conversationsData' = <<list>>
    /\ selectedThreadId' = SyncSelection(selectedThreadId, <<list>>)
    /\ threads' = SyncThreads(SyncThreads(threads, <<list>>), <<list>>)
    /\ conversationFetches' = conversationFetches + 1
    /\ UNCHANGED <<isSending, sending, delivered, sends>>
    /\ UNCHANGED NotAgents

\* the user clicks another thread of the list; selectedThreadId changes and
\* the effect runs
SelectThread(id) ==
    /\ \E k \in 1..Len(threads) : threads[k].id = id
    /\ id # selectedThreadId
    /\ selectedThreadId' = id
    /\ threads' = SyncThreads(threads, conversationsData)
    /\ UNCHANGED <<conversationsData, isSending, sending, delivered, sends,
                   conversationFetches>>
    /\ UNCHANGED NotAgents

\* handleSubmit up to its await: the message joins the selected thread
SendMessage(input) ==
    /\ Trim(input) # <<>> /\ ~isSending /\ HasSelectedThread
    /\ sends < MaxSends
    /\ isSending' = TRUE
    /\ sends' = sends + 1
    /\ threads' = [k \in 1..Len(threads) |->
                      IF threads[k].id = selectedThreadId
                      THEN [threads[k] EXCEPT
                               !.messages = Append(@, sends + 1)]
                      ELSE threads[k]]
    /\ sending' = <<[msg |-> sends + 1, thread |-> selectedThreadId]>>
    /\ UNCHANGED <<conversationsData, selectedThreadId, delivered,
                   conversationFetches>>
    /\ UNCHANGED NotAgents

\* the send resolves: a toast either way, isSending is reset
SendResolves(ok) ==
    /\ sending # <<>>
    /\ delivered' = IF ok THEN delivered \cup {sending[1]} ELSE delivered
    /\ sending' = <<>>
    /\ isSending' = FALSE
    /\ UNCHANGED <<conversationsData, threads, selectedThreadId, sends,
                   conversationFetches>>
    /\ UNCHANGED NotAgents

NextAgents ==
    \/ \E list \in ThreadLists : ConversationsArrive(list)
    \/ \E id \in {"th_1", "th_2"} : SelectThread(id)
    \/ \E input \in Inputs : SendMessage(input)
    \/ \E ok \in BOOLEAN : SendResolves(ok)

SpecAgents == Init /\ [][NextAgents]_vars

(***************************************************************************)
(* A Tooltip: components/ui/Tooltip/Tooltip.tsx                            *)
(***************************************************************************)
\* the parent renders the Tooltip with another value of disabled
TooltipProps(disabled) ==
    /\ disabled # tipDisabled
    /\ tipDisabled' = disabled
    /\ UNCHANGED <<isVisible, timeoutRef, tipTimers, tipCount, tipHidden>>
    /\ UNCHANGED NotTip

\* showTooltip (mouse enter or focus): a new timer, whose id overwrites
\* timeoutRef.current
showTooltip ==
    /\ tipCount < MaxTipTimers
    /\ tipHidden' = FALSE
    /\ IF tipDisabled
       THEN UNCHANGED <<timeoutRef, tipTimers, tipCount>>
       ELSE /\ tipCount' = tipCount + 1
            /\ timeoutRef' = tipCount + 1
            /\ tipTimers' = tipTimers \cup {tipCount + 1}
    /\ UNCHANGED <<isVisible, tipDisabled>>
    /\ UNCHANGED NotTip

\* hideTooltip (mouse leave or blur): clearTimeout of the timer the ref
\* names, setIsVisible(false)
hideTooltip ==
    /\ tipTimers' = IF timeoutRef # 0 THEN tipTimers \ {timeoutRef}
                                      ELSE tipTimers
    /\ isVisible' = FALSE
    /\ tipHidden' = TRUE
    /\ UNCHANGED <<timeoutRef, tipCount, tipDisabled>>
    /\ UNCHANGED NotTip

\* a show timer fires: setIsVisible(true)
TipTimerFires(id) ==
    /\ id \in tipTimers
    /\ tipTimers' = tipTimers \ {id}
    /\ isVisible' = TRUE
    /\ UNCHANGED <<timeoutRef, tipCount, tipDisabled, tipHidden>>
    /\ UNCHANGED NotTip

NextTip ==
    \/ \E disabled \in BOOLEAN : TooltipProps(disabled)
    \/ showTooltip
    \/ hideTooltip
    \/ \E id \in 1..MaxTipTimers : TipTimerFires(id)

SpecTip == Init /\ [][NextTip]_vars

(***************************************************************************)
(* The versions page: handleRollback and the rollback dialog.              *)
(***************************************************************************)
\* the Rollback button, the Cancel button and onClose of the dialog
SetRollbackOpen(open) ==
    /\ open # isRollbackOpen
    /\ isRollbackOpen' = open
    /\ UNCHANGED <<rollbackReason, rollbackCalls, rollbackResults,
                   versionNotices, versionRefetches, rollbackClicks>>
    /\ UNCHANGED NotVersions

\* the user edits the reason in the dialog
TypeReason(input) ==
    /\ isRollbackOpen
    /\ input # rollbackReason
    /\ rollbackReason' = input
    /\ UNCHANGED <<isRollbackOpen, rollbackCalls, rollbackResults,
                   versionNotices, versionRefetches, rollbackClicks>>
    /\ UNCHANGED NotVersions

\* mutant: the reason is tested without trim()
RollbackAccepts_NoTrim(reason) == reason # <<>>

\* the negation of `if (!rollbackReason.trim())`
RollbackAccepts(reason) == Trim(reason) # <<>>

\* handleRollback with a blank reason: an error toast and return.  The
\* handler is followed for every reason, whatever its button allows.
RollbackRefused ==
    /\ isRollbackOpen
    /\ rollbackClicks < MaxRollbackClicks
    /\ ~RollbackAccepts(rollbackReason)
    /\ versionNotices' = Append(versionNotices, "error")
    /\ rollbackClicks' = rollbackClicks + 1
    /\ UNCHANGED <<isRollbackOpen, rollbackReason, rollbackCalls,
                   rollbackResults, versionRefetches>>
    /\ UNCHANGED NotVersions

\* handleRollback up to its await: a warning toast and the dispatch
RollbackDispatched ==
    /\ isRollbackOpen
    /\ rollbackClicks < MaxRollbackClicks
    /\ RollbackAccepts(rollbackReason)
    /\ versionNotices' = Append(versionNotices, "warning")
    /\ rollbackCalls' = Append(rollbackCalls, rollbackReason)
    /\ rollbackClicks' = rollbackClicks + 1
    /\ UNCHANGED <<isRollbackOpen, rollbackReason, rollbackResults,
                   versionRefetches>>
    /\ UNCHANGED NotVersions

\* the oldest pending dispatch settles: the dialog is closed; on success a
\* toast, the reason is emptied and the versions are fetched again
RollbackSettles(result) ==
    /\ Len(rollbackResults) < Len(rollbackCalls)
    /\ rollbackResults' = Append(rollbackResults, result)
    /\ isRollbackOpen' = FALSE
    /\ IF result
       THEN /\ versionNotices' = Append(versionNotices, "success")
            /\ rollbackReason' = <<>>
            /\ versionRefetches' = versionRefetches + 1
       ELSE UNCHANGED <<versionNotices, rollbackReason, versionRefetches>>
    /\ UNCHANGED <<rollbackCalls, rollbackClicks>>
    /\ UNCHANGED NotVersions

NextVersions ==
    \/ \E open \in BOOLEAN : SetRollbackOpen(open)
    \/ \E input \in Inputs : TypeReason(input)
    \/ RollbackRefused
    \/ RollbackDispatched
    \/ \E result \in BOOLEAN : RollbackSettles(result)

SpecVersions == Init /\ [][NextVersions]_vars

(***************************************************************************)
(* The Modal: handleEscape and the effect that adds and removes it.        *)
(***************************************************************************)
\* handleEscape as useCallback returns it: one function for each value of
\* its dependencies closeOnEscape and onClose
handleEscapeOf(m, props) ==
    [modal |-> m, closeOnEscape |-> props.closeOnEscape,
     onClose |-> props.onClose]

\* does handleEscape call onClose for this event?
handleEscape(h, key) == key = "Escape" /\ h.closeOnEscape

\* document.addEventListener: a listener that is there already is not
\* added again
AddListener(ls, h) ==
    IF h \in Range(ls) THEN ls ELSE Append(ls, h)

\* document.removeEventListener
RemoveListener(ls, h) == SelectSeq(ls, LAMBDA x : x # h)

\* the body of the effect
ModalEffect(m, props, doc) ==
    IF props.isOpen
    THEN [listeners |-> AddListener(doc.listeners, handleEscapeOf(m, props)),
          overflow |-> "hidden"]
    ELSE doc

\* mutant: the cleanup leaves the listener in place
ModalCleanup_KeepsListener(m, props, doc) ==
    [listeners |-> doc.listeners, overflow |-> ""]

\* the cleanup the effect returns
ModalCleanup(m, props, doc) ==
    [listeners |-> RemoveListener(doc.listeners, handleEscapeOf(m, props)),
     overflow |-> ""]

Document == [listeners |-> keydownListeners, overflow |-> bodyOverflow]

SetDocument(doc) ==
    /\ keydownListeners' = doc.listeners
    /\ bodyOverflow' = doc.overflow

\* a Modal is mounted: its effect runs
ModalMounts(m, props) ==
    /\ ~modalMounted[m]
    /\ modalMounted' = [modalMounted EXCEPT ![m] = TRUE]
    /\ modalProps' = [modalProps EXCEPT ![m] = props]
    /\ SetDocument(ModalEffect(m, props, Document))
    /\ UNCHANGED <<onCloseCalls, keydowns>>
    /\ UNCHANGED NotModal

\* the parent renders a Modal with other props: isOpen or handleEscape has
\* changed, so the cleanup of the last effect runs and then the effect
ModalRenders(m, props) ==
    /\ modalMounted[m]
    /\ props # modalProps[m]
    /\ modalProps' = [modalProps EXCEPT ![m] = props]
    /\ SetDocument(ModalEffect(m, props,
                                ModalCleanup(m, modalProps[m], Document)))
    /\ UNCHANGED <<modalMounted, onCloseCalls, keydowns>>
    /\ UNCHANGED NotModal

\* a Modal is unmounted: the cleanup of its last effect runs
ModalUnmounts(m) ==
    /\ modalMounted[m]
    /\ modalMounted' = [modalMounted EXCEPT ![m] = FALSE]
    /\ SetDocument(ModalCleanup(m, modalProps[m], Document))
    /\ UNCHANGED <<modalProps, onCloseCalls, keydowns>>
    /\ UNCHANGED NotModal

\* the calls of onClose one keydown event makes, listener by listener
RECURSIVE EscapeCalls(_, _)
EscapeCalls(ls, key) ==
    IF ls = <<>> THEN <<>>
    ELSE (IF handleEscape(Head(ls), key)
          THEN <<[modal |-> Head(ls).modal, onClose |-> Head(ls).onClose,
                  key |-> key,
                  mounted |-> modalMounted[Head(ls).modal],
                  isOpen |-> modalProps[Head(ls).modal].isOpen,
                  closeOnEscape |->
                      modalProps[Head(ls).modal].closeOnEscape]>>
          ELSE <<>>) \o EscapeCalls(Tail(ls), key)

\* a keydown event reaches document: every listener runs
KeyDown(key) ==
    /\ keydowns < MaxKeydowns
    /\ keydowns' = keydowns + 1
    /\ onCloseCalls' = onCloseCalls \o EscapeCalls(keydownListeners, key)
    /\ UNCHANGED <<modalMounted, modalProps, keydownListeners, bodyOverflow>>
    /\ UNCHANGED NotModal

NextModal ==
    \/ \E m \in Modals, props \in ModalPropsSet : ModalMounts(m, props)
    \/ \E m \in Modals, props \in ModalPropsSet : ModalRenders(m, props)
    \/ \E m \in Modals : ModalUnmounts(m)
    \/ \E key \in Keys : KeyDown(key)

SpecModal == Init /\ [][NextModal]_vars

(***************************************************************************)
(* The toast provider of the root layout: components/ui/Toast/Toast.tsx    *)
(***************************************************************************)
NoDuration == -1

\* toast.duration ?? config.ui.toastDuration
DurationOf(toast) ==
    IF toast.duration # NoDuration THEN toast.duration ELSE toastDuration

\* mutant: slice(0, maxToasts)
SliceLast_First(s, n) == IF Len(s) <= n THEN s ELSE SubSeq(s, 1, n)

\* slice(-maxToasts)
SliceLast(s, n) == IF Len(s) <= n THEN s ELSE SubSeq(s, Len(s) - n + 1, Len(s))

InToasts(id) == \E i \in 1..Len(toasts) : toasts[i].id = id

\* how toast id left the list, "no" while it has not
MarkGone(log, ids, how) ==
    [k \in 1..Len(log) |->
        IF k \in ids /\ log[k].gone = "no"
        THEN [log[k] EXCEPT !.gone = how] ELSE log[k]]

\* mutant: when the id is not in the list the last toast is removed
removeToast_DropsLast(id, how) ==
    /\ toasts' = IF InToasts(id) \/ toasts = <<>>
                 THEN SelectSeq(toasts, LAMBDA t : t.id # id)
                 ELSE SubSeq(toasts, 1, Len(toasts) - 1)
    /\ toastLog' = IF InToasts(id) THEN MarkGone(toastLog, {id}, how)
                                   ELSE toastLog

\* setToasts(prev => prev.filter(t => t.id !== id))
removeToast(id, how) ==
    /\ toasts' = SelectSeq(toasts, LAMBDA t : t.id # id)
    /\ toastLog' = IF InToasts(id) THEN MarkGone(toastLog, {id}, how)
                                   ELSE toastLog

\* the toast gets the next id, joins the end of the list, the list keeps
\* its last maxToasts entries, and a positive duration starts a timer
addToast(toast) ==
    LET id == Len(toastLog) + 1
        added == Append(toasts, [id |-> id, type |-> toast.type])
        kept == SliceLast(added, maxToasts)
        evicted == {added[i].id : i \in 1..(Len(added) - Len(kept))}
    IN  /\ Len(toastLog) < MaxToastCalls
        /\ toasts' = kept
        /\ timers' = IF DurationOf(toast) > 0 THEN timers \cup {id} ELSE timers
        /\ toastLog' = Append(MarkGone(toastLog, evicted, "cap"),
                              [type |-> toast.type,
                               duration |-> DurationOf(toast),
                               gone |-> "no"])

\* mutant: the error helper names no duration
ErrorToast_NoDuration == [type |-> "error", duration |-> NoDuration]

\* what error(message) hands to addToast
ErrorToast == [type |-> "error", duration |-> 0]

\* what success(message) hands to addToast
SuccessToast == [type |-> "success", duration |-> NoDuration]

\* success(message): the board's "Moved task to ..."
ToastSuccess ==
    /\ addToast(SuccessToast)
    /\ UNCHANGED <<boardVars, pageVars, streamVars, uiVars>>

\* error(message): the board's showError("Failed to move task. ...")
ToastError ==
    /\ addToast(ErrorToast)
    /\ UNCHANGED <<boardVars, pageVars, streamVars, uiVars>>

\* the user clicks the close button of a toast in the list
ToastDismissed(id) ==
    /\ InToasts(id)
    /\ removeToast(id, "user")
    /\ UNCHANGED timers
    /\ UNCHANGED <<boardVars, pageVars, streamVars, uiVars>>

\* the timer of a toast fires: removeToast(id), whether or not the toast
\* is still in the list
ToastTimerFires(id) ==
    /\ id \in timers
    /\ removeToast(id, "timer")
    /\ timers' = timers \ {id}
    /\ UNCHANGED <<boardVars, pageVars, streamVars, uiVars>>

NextToast ==
    \/ ToastSuccess
    \/ ToastError
    \/ \E id \in 1..MaxToastCalls : ToastDismissed(id)
    \/ \E id \in 1..MaxToastCalls : ToastTimerFires(id)

SpecToast == Init /\ [][NextToast]_vars

\* a timer that was started fires
SpecToastFair ==
    SpecToast /\ \A id \in 1..MaxToastCalls : WF_vars(ToastTimerFires(id))

(***************************************************************************)
(* What the claims speak of.                                               *)
(***************************************************************************)
InColumn(t, c, id) == FindTask(t[c], id) # NoTask

ColumnsOf(t, id) == {c \in ColumnIds : InColumn(t, c, id)}

\* how many entries of the mirror carry the id
Occurrences(t, id) ==
    Cardinality({p \in UNION {{<<c, i>> : i \in 1..Len(t[c])} : c \in ColumnIds} :
                    t[p[1]][p[2]].id = id})

LastResolution == resolutions[Len(resolutions)]

\* this step is the resolution of a dispatch, with the result ok
ResolutionStep(ok) ==
    /\ Len(resolutions') = Len(resolutions) + 1
    /\ resolutions'[Len(resolutions')].ok = ok

\* this step is an accepted drop
AcceptStep == Len(moves') = Len(moves) + 1

\* this step is a call of handleDragEnd
DropStep == lastDrop' # NoDrop /\ lastDrop' # lastDrop

\* the task of move n is in column c, once, exactly as the record t
OnlyIn(n, c, t) ==
    /\ ColumnsOf(tasks, moves[n].id) = {c}
    /\ Occurrences(tasks, moves[n].id) = 1
    /\ FindTask(tasks[c], moves[n].id) = t

\* the task as the optimistic update files it
Moved(m) == [m.task EXCEPT !.status = m.overColumn]

(***************************************************************************)
(* C1: when the dispatch of an accepted move fails, and no other move or   *)
(* seed came in between, the mirror after the rollback equals the mirror   *)
(* before the move: same columns, same items, same order.                  *)
(***************************************************************************)
C1_RollbackRestoresMirror ==
    [][(ResolutionStep(FALSE) /\ preMove.n = resolutions'[Len(resolutions')].n)
          => tasks' = preMove.board]_vars

(***************************************************************************)
(* C2: in every reachable state no task id is in two columns or twice in   *)
(* one column.                                                             *)
(***************************************************************************)
C2_OneColumnPerItem == \A id \in TaskIds : Occurrences(tasks, id) <= 1

(***************************************************************************)
(* C3: right after an accepted move from A to B, before its dispatch       *)
(* resolves, the item is found in B and is absent from A.                  *)
(***************************************************************************)
C3_OptimisticVisibility ==
    [][AcceptStep =>
          LET m == moves'[Len(moves')]
          IN  /\ resolutions' = resolutions
              /\ InColumn(tasks', m.overColumn, m.id)
              /\ ~InColumn(tasks', m.sourceColumn, m.id)]_vars

C3_Witness ==
    /\ lastDrop.accepted
    /\ Pending(Len(moves))
    /\ LET m == moves[Len(moves)]
       IN  /\ tasks[m.sourceColumn] # <<>>
           /\ InColumn(tasks, m.overColumn, m.id)

(***************************************************************************)
(* C4: two accepted moves on different items, the second accepted while    *)
(* the first dispatch is pending, no collection fetched meanwhile: once    *)
(* both dispatches have resolved, in either order, each item is in its own *)
(* destination if its own dispatch succeeded and in its own source, as its *)
(* pre-move record, if its own dispatch failed.                            *)
(***************************************************************************)
TwoMovesResolved ==
    /\ Len(moves) = 2
    /\ 1 \in moves[2].inflight
    /\ seeds = moves[1].seeds
    /\ Resolved(1)
    /\ Resolved(2)

C4_IndependentReconcile ==
    (TwoMovesResolved /\ moves[1].id # moves[2].id) =>
        \A n \in 1..2 :
            IF Outcome(n)
            THEN OnlyIn(n, moves[n].overColumn, Moved(moves[n]))
            ELSE OnlyIn(n, moves[n].sourceColumn, moves[n].task)

\* the first move fails after the second has succeeded
C4_Witness ==
    /\ TwoMovesResolved
    /\ moves[1].id # moves[2].id
    /\ moves[1].sourceColumn = moves[2].sourceColumn
    /\ moves[1].overColumn = moves[2].overColumn
    /\ resolutions = <<[n |-> 2, ok |-> TRUE], [n |-> 1, ok |-> FALSE]>>

(***************************************************************************)
(* C5: the same item moved twice, A to B and then B to C, the second       *)
(* accepted before the first dispatch resolves: once both have resolved    *)
(* the item is in the destination of the move that resolved last if that   *)
(* dispatch succeeded, in its source if it failed, and nowhere else.       *)
(***************************************************************************)
C5_LastResolvedWins ==
    (/\ TwoMovesResolved
     /\ moves[1].id = moves[2].id
     /\ moves[2].sourceColumn = moves[1].overColumn
     /\ moves[2].overColumn # moves[1].sourceColumn) =>
        LET last == LastResolution.n
            col == IF LastResolution.ok THEN moves[last].overColumn
                   ELSE moves[last].sourceColumn
        IN  ColumnsOf(tasks, moves[last].id) = {col}

(***************************************************************************)
(* C6: when the dispatch of an accepted move succeeds, the handler changes *)
(* neither the mirror nor the notifications; an item that no other move,   *)
(* rollback or seed has touched since is in the destination column with    *)
(* that column as its status.                                              *)
(***************************************************************************)
C6_NoRevertOnSuccess ==
    [][ResolutionStep(TRUE) =>
          LET n == resolutions'[Len(resolutions')].n
          IN  /\ tasks' = tasks
              /\ notifications' = notifications
              /\ (preMove.n = n /\ moves[n].inflight = {}) =>
                    FindTask(tasks'[moves[n].overColumn], moves[n].id)
                        = Moved(moves[n])]_vars

C6_Witness ==
    /\ resolutions # <<>>
    /\ LastResolution.ok
    /\ preMove.n = LastResolution.n
    /\ moves[LastResolution.n].inflight = {}
    /\ OnlyIn(LastResolution.n, moves[LastResolution.n].overColumn,
              Moved(moves[LastResolution.n]))
    /\ \A k \in 1..Len(notifications) : notifications[k].type = "success"

(***************************************************************************)
(* C7: a drop for an item id found in no column of the mirror leaves the   *)
(* mirror unchanged, issues no dispatch and emits no notification.         *)
(***************************************************************************)
C7_StaleDropIsNoOp ==
    [][(DropStep /\ findColumnForTask(tasks, lastDrop'.id) = Null) =>
          /\ tasks' = tasks
          /\ dispatched' = dispatched
          /\ notifications' = notifications
          /\ moves' = moves]_vars

\* a stale drop on a column that accepts drops, on a mirror that holds tasks
C7_Witness ==
    /\ lastDrop # NoDrop
    /\ findColumnForTask(tasks, lastDrop.id) = Null
    /\ lastDrop.over \in Range(columns)
    /\ tasks # fallbackTasks
    /\ ~lastDrop.accepted

(***************************************************************************)
(* C8: a drop of an item on the column it is in leaves the mirror          *)
(* unchanged and issues no dispatch.                                       *)
(***************************************************************************)
C8_SameColumnIsNoOp ==
    [][(/\ DropStep
        /\ findColumnForTask(tasks, lastDrop'.id) # Null
        /\ findColumnForTask(tasks, lastDrop'.id) = lastDrop'.over) =>
          /\ tasks' = tasks
          /\ dispatched' = dispatched
          /\ moves' = moves]_vars

C8_Witness ==
    /\ lastDrop # NoDrop
    /\ lastDrop.over \in Range(columns)
    /\ findColumnForTask(tasks, lastDrop.id) = lastDrop.over
    /\ ~lastDrop.accepted

(***************************************************************************)
(* C9: a fetched collection replaces the whole mirror, whatever the mirror *)
(* held; the same collection delivered once more leaves the mirror as the  *)
(* first delivery left it.                                                 *)
(***************************************************************************)
C9_SeedReplaces ==
    [][seeds' # seeds =>
          /\ tasks' = boardData'[1]
          /\ (boardData' = boardData /\ tasks = boardData[1]) => tasks' = tasks
          /\ \A id \in TaskIds :
                Occurrences(tasks', id) = Occurrences(boardData'[1], id)]_vars

\* the collection fetched before an optimistic move is delivered again
\* while the move is pending
C9_Witness ==
    /\ seeds = 2
    /\ Len(moves) = 1
    /\ moves[1].seeds = 1
    /\ Pending(1)
    /\ tasks = boardData[1]
    /\ FindTask(tasks[moves[1].sourceColumn], moves[1].id) = moves[1].task
    /\ Len(tasks[moves[1].sourceColumn]) = 2

(***************************************************************************)
(* C10: every accepted move emits exactly one success notification, in the *)
(* step that accepts it, before its dispatch resolves; a failure           *)
(* notification is emitted for a move if and only if its dispatch failed,  *)
(* after the success notification of that move and in the step that puts   *)
(* the item back in its source column.                                     *)
(***************************************************************************)
Notes(type, n) ==
    {k \in 1..Len(notifications) :
        notifications[k] = [type |-> type, move |-> n]}

NotificationsMatch ==
    \A n \in 1..Len(moves) :
        /\ Cardinality(Notes("success", n)) = 1
        /\ Cardinality(Notes("error", n))
              = IF Resolved(n) /\ ~Outcome(n) THEN 1 ELSE 0
        /\ \A e \in Notes("error", n) : \A k \in Notes("success", n) : k < e

NotificationSteps ==
    /\ AcceptStep =>
          /\ notifications' = Append(notifications,
                                     [type |-> "success", move |-> Len(moves')])
          /\ resolutions' = resolutions
    /\ ResolutionStep(FALSE) =>
          LET n == resolutions'[Len(resolutions')].n
          IN  /\ notifications' = Append(notifications,
                                         [type |-> "error", move |-> n])
              /\ ~InColumn(tasks', moves[n].overColumn, moves[n].id)
              /\ tasks'[moves[n].sourceColumn]
                    = Append(tasks[moves[n].sourceColumn], moves[n].task)

C10_Notifications == []NotificationsMatch /\ [][NotificationSteps]_vars

C10_Witness ==
    /\ Len(moves) = 2
    /\ notifications = <<[type |-> "success", move |-> 1],
                         [type |-> "success", move |-> 2],
                         [type |-> "error", move |-> 1]>>
    /\ Resolved(2)

(***************************************************************************)
(* The toast list.                                                         *)
(***************************************************************************)
Added(id) == id \in 1..Len(toastLog)

ErrorShown(id) == Added(id) /\ toastLog[id].type = "error" /\ InToasts(id)

\* C11, as the specification states it: the notification of a failed move
\* is of another kind than the success notification, and, once shown, it
\* leaves the toast list in the end although the user does nothing.
C11_FailureNoticeTransient ==
    /\ [](ErrorToast.type # SuccessToast.type)
    /\ \A id \in 1..MaxToastCalls : ErrorShown(id) ~> ~InToasts(id)

ErrorHasNoTimer ==
    \A id \in 1..Len(toastLog) :
        toastLog[id].type = "error" =>
            /\ toastLog[id].type # SuccessToast.type
            /\ toastLog[id].duration = 0
            /\ id \notin timers

\* the step adds a toast to a full list
CapStep == Len(toastLog') = Len(toastLog) + 1 /\ Len(toasts) = maxToasts

\* the step is neither a call of addToast nor a timer that fires
UserStep == toastLog' # toastLog /\ Len(toastLog') = Len(toastLog)
               /\ timers' = timers

ErrorLeaves ==
    \A id \in 1..MaxToastCalls :
        ErrorShown(id) /\ ~InToasts(id)' =>
            \/ CapStep /\ toasts[1].id = id
            \/ UserStep

\* C11, amended: the notification of a failed move is of kind error, not
\* of kind success, and it is not transient: no timer is started for it,
\* and it leaves the toast list only when the user dismisses it or when a
\* newer toast pushes it out of the last maxToasts.
C11_FailureNoticeStays == []ErrorHasNoTimer /\ [][ErrorLeaves]_vars

\* an error toast is shown and no timer is pending, after an earlier
\* success toast has been removed by its timer
C11_Witness ==
    /\ timers = {}
    /\ \E j, k \in 1..Len(toastLog) :
          /\ j < k
          /\ toastLog[j].type = "success" /\ toastLog[j].gone = "timer"
          /\ ErrorShown(k)

(***************************************************************************)
(* The board stream.                                                       *)
(***************************************************************************)
MessageStep == lastMessage'.n = lastMessage.n + 1

SeedStep == seeds' = seeds + 1

RefetchTypes == {"task_moved", "task_updated", "task_created"}

\* C12: a task_moved, task_updated or task_created message makes the board
\* call refetch() once, and a fetched collection that reaches the page
\* becomes the mirror; both hold whether or not a dispatch is pending.
C12_StreamRefetch ==
    /\ [][MessageStep /\ lastMessage'.type \in RefetchTypes
            => refetches' = refetches + 1]_vars
    /\ [][SeedStep => boardData' # <<>> /\ tasks' = boardData'[1]]_vars

\* a message came while move 1 was in flight, the board called refetch(),
\* and a collection fetched after that is the mirror, move 1 still in flight
C12_Witness ==
    /\ lastMessage.type \in RefetchTypes
    /\ 1 \in lastMessage.pending
    /\ refetches = 1
    /\ lastMessage.seeds < seeds
    /\ Pending(1)
    /\ tasks = boardData[1]
    /\ tasks # preMove.board

(***************************************************************************)
(* The bugs stream and the agent stream.                                   *)
(***************************************************************************)
\* the last message of the bugs stream, given in this step
BugMessageStep(type) == bugEvents' = Append(bugEvents, type)

\* C13: a bug_created or bug_fixed message, the types the Bug Tracking API
\* documents for a changed bug collection, makes the bug tracker page call
\* refetch().
C13_DocumentedBugEventRefetches ==
    [][\A type \in {"bug_created", "bug_fixed"} :
          BugMessageStep(type) => bugRefetches' = bugRefetches + 1]_vars

\* the last message of the agent stream, given in this step
AgentMessageStep(type) == agentEvents' = Append(agentEvents, type)

\* C14: a new_message or approval_requested message, the types the Agent
\* Collaboration API documents for new activity, makes the agents page call
\* refetch().
C14_DocumentedAgentEventRefetches ==
    [][\A type \in {"new_message", "approval_requested"} :
          AgentMessageStep(type) => agentRefetches' = agentRefetches + 1]_vars

(***************************************************************************)
(* Late resolutions.                                                       *)
(***************************************************************************)
\* the move whose dispatch resolves in this step
ResolvedNow == resolutions'[Len(resolutions')].n

\* C15: when a fetched collection has replaced the mirror while the dispatch
\* of a move was in flight, the resolution of that dispatch, success or
\* failure, leaves the mirror as it is.
C15_SupersededMoveLeavesSeed ==
    [][\A ok \in BOOLEAN :
          (ResolutionStep(ok) /\ moves[ResolvedNow].seeds < seeds)
              => tasks' = tasks]_vars

\* C16: when the board page has been unmounted while the dispatch of a move
\* was in flight, the resolution of that dispatch, success or failure,
\* changes neither the mirror nor the notifications.
C16_UnmountedResolutionIsNoOp ==
    [][\A ok \in BOOLEAN :
          (ResolutionStep(ok) /\ ~mounted)
              => tasks' = tasks /\ notifications' = notifications]_vars

(***************************************************************************)
(* The dispatches.                                                         *)
(***************************************************************************)
DispatchPerMove ==
    /\ Len(dispatched) = Len(moves)
    /\ \A n \in 1..Len(moves) :
          dispatched[n] = [taskId |-> moves[n].task.id,
                           newStatus |-> moves[n].overColumn]

DispatchSteps ==
    /\ AcceptStep => Len(dispatched') = Len(dispatched) + 1
    /\ (\E ok \in BOOLEAN : ResolutionStep(ok)) => dispatched' = dispatched
    /\ (DropStep /\ ~lastDrop'.accepted) => dispatched' = dispatched

\* C17: every accepted move has issued one call of mutate, with the id of
\* the moved item and the destination column; the resolution of a dispatch,
\* failure included, issues none, and neither does a rejected drop.
C17_OneDispatchPerMove == []DispatchPerMove /\ [][DispatchSteps]_vars

\* the only move has failed, a drop has been rejected since, and there is
\* still the one dispatch
C17_Witness ==
    /\ Len(moves) = 1
    /\ Resolved(1) /\ ~Outcome(1)
    /\ lastDrop # NoDrop /\ ~lastDrop.accepted
    /\ dispatched = <<[taskId |-> moves[1].id,
                       newStatus |-> moves[1].overColumn]>>

(***************************************************************************)
(* The optimistic update, the drop targets, the messages left alone.       *)
(***************************************************************************)
\* the entries of a column that do not carry the id, in their order
Without(col, id) == SelectSeq(col, LAMBDA t : t.id # id)

DispatchTargets ==
    \A n \in 1..Len(dispatched) :
        dispatched[n].newStatus
            \in {"todo", "in_progress", "review", "testing", "done"}

OffBoardDrop ==
    (DropStep /\ lastDrop'.over
                    \notin {"todo", "in_progress", "review", "testing", "done"})
        => /\ tasks' = tasks
           /\ dispatched' = dispatched
           /\ moves' = moves
           /\ ~lastDrop'.accepted

OutOfBlocked ==
    (/\ DropStep
     /\ findColumnForTask(tasks, lastDrop'.id) = "blocked"
     /\ lastDrop'.over \in {"todo", "in_progress", "review", "testing", "done"})
        => /\ lastDrop'.accepted
           /\ InColumn(tasks', lastDrop'.over, lastDrop'.id)
           /\ ~InColumn(tasks', "blocked", lastDrop'.id)

\* C19: every call of mutate names one of the five columns of the board; a
\* drop on anything else ("blocked", a task id, nothing) leaves the mirror
\* and the calls of mutate as they are; a drop of an item that is in
\* "blocked" on one of the five columns is accepted.
C19_FixedDestinations ==
    []DispatchTargets /\ [][OffBoardDrop /\ OutOfBlocked]_vars

\* an item has been moved out of "blocked", and the last drop, of an item
\* of the board on "blocked", was rejected
C19_Witness ==
    /\ Len(moves) >= 1 /\ moves[1].sourceColumn = "blocked"
    /\ lastDrop.over = "blocked" /\ ~lastDrop.accepted
    /\ findColumnForTask(tasks, lastDrop.id) \in Range(columns)

\* C20: a message of the board stream of any other type than task_moved,
\* task_updated and task_created changes nothing: no call of refetch(), no
\* notification, no change of the mirror or of anything else of the page.
C20_OtherMessagesIgnored ==
    [][(MessageStep /\ lastMessage'.type \notin RefetchTypes) =>
          /\ refetches' = refetches
          /\ notifications' = notifications
          /\ UNCHANGED <<tasks, boardData, moves, resolutions, dispatched,
                         seeds, preMove, mounted>>]_vars

\* an unknown message came while a dispatch was in flight, and no refetch
\* was called
C20_Witness ==
    /\ lastMessage.type \in {"initial_state", "task_deleted"}
    /\ lastMessage.pending # {}
    /\ refetches = 0
    /\ tasks # fallbackTasks

(***************************************************************************)
(* Collections off the contract.                                           *)
(***************************************************************************)
\* C21: a fetched collection with a column key outside the enumeration is
\* not applied, so the keys of the mirror are always the six of ColumnId.
C21_MirrorKeysAreTheEnumeration == DOMAIN tasks = ColumnIds

(***************************************************************************)
(* The dashboard.                                                          *)
(***************************************************************************)
\* C22: once both responses have arrived, the bug counts of the project are
\* those of the bug metrics, in whatever order the responses came and after
\* any later project-metrics response.
C22_BugCountsFromBugMetrics ==
    (metricsData # <<>> /\ bugMetrics # <<>>) =>
        /\ project # <<>>
        /\ project[1].openBugs = bugMetrics[1].open
        /\ project[1].criticalBugs = bugMetrics[1].critical

(***************************************************************************)
(* The new-project page.                                                   *)
(***************************************************************************)
SendsUseIssuedIds ==
    \A k \in 1..Len(calls) :
        calls[k].fn = "send" => calls[k].conv \in issued

\* this step is a submit that went on to its call
SubmitAcceptStep == lastSubmit'.n = lastSubmit.n + 1

SubmitSteps ==
    /\ (SubmitAcceptStep /\ calls'[Len(calls')].fn = "send")
          => calls'[Len(calls')].conv \in issued
    /\ (SubmitAcceptStep /\ issued = {})
          => /\ Len(calls') = Len(calls) + 1
             /\ calls'[Len(calls')].fn = "start"
    /\ SubmitAcceptStep => request = <<>> /\ ~isLoading
    /\ (request # <<>> /\ lastSubmit' # lastSubmit) => ~lastSubmit'.accepted

\* C23: sendMessage is only called with a conversation id an earlier
\* startConversation returned; while none has returned one, a failed one
\* included, every accepted submit calls startConversation; no submit is
\* accepted while handleSubmit awaits a call.
C23_ConversationIds == []SendsUseIssuedIds /\ [][SubmitSteps]_vars

\* a first startConversation failed, a second returned an id, and
\* sendMessage was called with that id
C23_Witness ==
    /\ Len(calls) = 3 /\ Len(chat) >= 4
    /\ chat[2] = "error"
    /\ calls[1].fn = "start" /\ calls[2].fn = "start"
    /\ calls[3].fn = "send" /\ calls[3].conv = conversationId
    /\ issued = {conversationId}

\* C24: once approveRequirements has settled with failure, isApproving is
\* false, and the approve button can be used again.
C24_ApproveCanBeRetried ==
    (canApprove /\ ~approving /\ ~navigated)
        => ~isApproving /\ ApproveEnabled

(***************************************************************************)
(* The agents page.                                                        *)
(***************************************************************************)
InThread(m) ==
    \E k \in 1..Len(threads) :
        /\ threads[k].id = m.thread
        /\ \E i \in 1..Len(threads[k].messages) : threads[k].messages[i] = m.msg

\* C25: a message the user sent, once its send has succeeded, is in its
\* thread from then on, whatever is fetched or selected later.
C25_SentMessageStays == \A m \in delivered : InThread(m)

(***************************************************************************)
(* The toast list: its size and its timers.                                *)
(***************************************************************************)
\* this step is a call of addToast
AddStep == Len(toastLog') = Len(toastLog) + 1

CapKeepsNewest ==
    AddStep =>
        LET new == [id |-> Len(toastLog'), type |-> toastLog'[Len(toastLog')].type]
        IN  toasts' = IF Len(toasts) < maxToasts
                      THEN Append(toasts, new)
                      ELSE Append(Tail(toasts), new)

\* C26: the toast list never holds more than maxToasts toasts; a call of
\* addToast on a full list drops the oldest toast and keeps the new one.
C26_ToastCap == [](Len(toasts) <= maxToasts) /\ [][CapKeepsNewest]_vars

\* the sixth toast is in the list, the first one has been dropped for it
C26_Witness ==
    /\ Len(toastLog) = maxToasts + 1
    /\ Len(toasts) = maxToasts
    /\ toasts[1].id = 2
    /\ toasts[maxToasts].id = maxToasts + 1
    /\ toastLog[1].gone = "cap"

\* this step is the timer of toast id firing
TimerStep(id) == id \in timers /\ timers' = timers \ {id}

TimerSteps ==
    \A id \in 1..MaxToastCalls :
        /\ (TimerStep(id) /\ ~InToasts(id)) => toasts' = toasts
        /\ (Added(id) /\ ~InToasts(id)) => ~InToasts(id)'

\* C27: a toast added with a positive duration leaves the list in the end
\* although the user does nothing; a timer that fires for a toast no longer
\* in the list leaves the list as it is; a toast that has left the list
\* does not come back.
C27_AutoDismiss ==
    /\ \A id \in 1..MaxToastCalls :
          (Added(id) /\ toastLog[id].duration > 0) ~> ~InToasts(id)
    /\ [][TimerSteps]_vars

\* the timer of a toast the user had dismissed has fired, and the timer of
\* a toast the cap had dropped, and other toasts are in the list
C27_Witness ==
    /\ toasts # <<>>
    /\ \E i, j \in 1..Len(toastLog) :
          /\ toastLog[i].duration > 0 /\ toastLog[i].gone = "user"
          /\ toastLog[j].duration > 0 /\ toastLog[j].gone = "cap"
          /\ i \notin timers /\ j \notin timers

(***************************************************************************)
(* The Tooltip.                                                            *)
(***************************************************************************)
\* C28: from hideTooltip until the next showTooltip the tooltip is not
\* visible, also when showTooltip had been called twice before the hide.
C28_HiddenStaysHidden == tipHidden => ~isVisible

(***************************************************************************)
(* The versions page.                                                      *)
(***************************************************************************)
Blank(reason) == \A i \in 1..Len(reason) : reason[i] = " "

DispatchedReasons ==
    \A k \in 1..Len(rollbackCalls) : ~Blank(rollbackCalls[k])

\* this step is a call of handleRollback
RollbackStep == rollbackClicks' = rollbackClicks + 1

\* this step is a dispatch that settles
SettleStep == Len(rollbackResults') = Len(rollbackResults) + 1

RollbackSteps ==
    /\ (RollbackStep /\ Blank(rollbackReason)) =>
          /\ versionNotices' = Append(versionNotices, "error")
          /\ rollbackCalls' = rollbackCalls
          /\ isRollbackOpen' /\ isRollbackOpen
    /\ (RollbackStep /\ ~Blank(rollbackReason)) =>
          /\ rollbackCalls' = Append(rollbackCalls, rollbackReason)
          /\ versionRefetches' = versionRefetches
    /\ SettleStep =>
          /\ ~isRollbackOpen'
          /\ versionRefetches' =
                IF rollbackResults'[Len(rollbackResults')]
                THEN versionRefetches + 1 ELSE versionRefetches
    /\ versionRefetches' # versionRefetches => SettleStep

\* C29: handleRollback dispatches only with a reason that is not blank; on
\* a blank reason it asks for an error toast, dispatches nothing and leaves
\* the dialog open; when a dispatch settles the dialog is closed, and the
\* versions are fetched again if and only if it succeeded.
C29_RollbackNeedsReason == []DispatchedReasons /\ [][RollbackSteps]_vars

\* a call with a blank reason was refused, a dispatch failed, another one
\* succeeded, and the versions were fetched again once
C29_Witness ==
    /\ versionNotices = <<"error", "warning", "warning", "success">>
    /\ rollbackResults = <<FALSE, TRUE>>
    /\ versionRefetches = 1
    /\ ~isRollbackOpen

(***************************************************************************)
(* The Modal.                                                              *)
(***************************************************************************)
\* the Modal is mounted and open
Shown(m) == modalMounted[m] /\ modalProps[m].isOpen

ListenersOf(m) == {h \in Range(keydownListeners) : h.modal = m}

\* every call of onClose by handleEscape answered the Escape key, for a
\* Modal that was mounted with isOpen and closeOnEscape true, and called the
\* onClose of that moment
EscapeOnlyWhileOpen ==
    \A k \in 1..Len(onCloseCalls) :
        /\ onCloseCalls[k].key = "Escape"
        /\ onCloseCalls[k].mounted
        /\ onCloseCalls[k].isOpen
        /\ onCloseCalls[k].closeOnEscape

\* a Modal that is not shown has no listener on document
ClosedHasNoListener == \A m \in Modals : ~Shown(m) => ListenersOf(m) = {}

\* the step in which a Modal is closed or unmounted restores the scrolling
ClosingRestoresScroll ==
    \A m \in Modals :
        (Shown(m) /\ ~Shown(m)') =>
            /\ ListenersOf(m)' = {}
            /\ bodyOverflow' = ""

\* C30: handleEscape calls onClose only for the Escape key and only while
\* the Modal is open with closeOnEscape true; a Modal that is closed or
\* unmounted has no keydown listener left, and the step that closes or
\* unmounts it sets the overflow of body back.
C30_ModalEscape ==
    /\ [](EscapeOnlyWhileOpen /\ ClosedHasNoListener)
    /\ [][ClosingRestoresScroll]_vars

\* of two keydown events one has made handleEscape call onClose, that of
\* m1, and m1 has been closed since: no listener is left and body scrolls
C30_Witness ==
    /\ keydowns = 2
    /\ Len(onCloseCalls) = 1
    /\ onCloseCalls[1].modal = "m1"
    /\ modalMounted["m1"]
    /\ ~modalProps["m1"].isOpen
    /\ keydownListeners = <<>>
    /\ bodyOverflow = ""

====
